---- MODULE Spec2Model ----
(***************************************************************************)
(* State-machine model of server/server.py: a Flask hub between an ESP8266 *)
(* sensor/actuator and a web UI.  The shared state is the three module     *)
(* level dicts (latest_data, hvac_settings, schedule_settings), the CSV    *)
(* log file and csv_lock.  Request handlers run on concurrent threads      *)
(* (app.run serves threaded), so the handlers that race on hvac_settings   *)
(* are modelled one shared-memory access per step; only csv_lock guards    *)
(* anything, and it guards the file alone.                                 *)
(***************************************************************************)
EXTENDS Integers, Sequences, FiniteSets, TLC

VARIABLES
    latest_data,        \* server.py:14-18
    hvac_settings,      \* server.py:21-29 (plus the 'source' key of lines 87, 136)
    schedule_settings,  \* server.py:32-37
    csv_file,           \* DATA_FILE: whether it exists, and its rows
    csv_lock,           \* Free, or the id of the thread inside `with csv_lock`
    clock,              \* the instant datetime.now() returns (seconds)
    rd,                 \* receive_data threads: locals and position
    uh,                 \* update_hvac thread: locals and position
    cmdResp,            \* last answer of get_hvac_command
    statusResp,         \* last answer of get_schedule_status
    schedResp,          \* last answer of update_schedule
    currentResp,        \* last answer of get_current
    gh,                 \* get_history thread: locals and position
    nreq,               \* requests started so far
    hist                \* history variables used by the properties only

vars == << latest_data, hvac_settings, schedule_settings, csv_file, csv_lock,
           clock, rd, uh, cmdResp, statusResp, schedResp, currentResp, gh,
           nreq, hist >>

----------------------------------------------------------------------------
(* Bounds of the model. *)

MaxRequests == 2
MaxClock == 1
MaxLogRows == 51

----------------------------------------------------------------------------
(* JSON / Python values.  A value is a record of one shape so that any two *)
(* are comparable: kind says which Python type it is, n carries a number,  *)
(* s the characters of a string (one-character strings, in order).         *)

None == [kind |-> "null", n |-> 0, s |-> << >>]
JInt(i) == [kind |-> "int", n |-> i, s |-> << >>]
JStr(cs) == [kind |-> "str", n |-> 0, s |-> cs]
JBool(b) == [kind |-> "bool", n |-> IF b THEN 1 ELSE 0, s |-> << >>]

(* strftime('%Y-%m-%d %H:%M:%S') of instant c: fixed-width, zero-padded,   *)
(* so these strings compare as the instants do; n keeps the instant.       *)
TimeStr(c) == [kind |-> "time", n |-> c, s |-> << >>]

(* The characters the model's strings are made of, in code-point order. *)
Chars == << "+", "-", "0", "1", "2", "3", "4", "5", "6", "7", "8", "9", ":",
            "a", "b", "c" >>
Digits == << "0", "1", "2", "3", "4", "5", "6", "7", "8", "9" >>

Ord(c) == CHOOSE i \in 1..Len(Chars) : Chars[i] = c
IsDigit(c) == \E i \in 1..Len(Digits) : Digits[i] = c
DigitVal(c) == (CHOOSE i \in 1..Len(Digits) : Digits[i] = c) - 1

RECURSIVE DecimalValue(_)
DecimalValue(cs) ==
    IF cs = << >> THEN 0
    ELSE DecimalValue(SubSeq(cs, 1, Len(cs) - 1)) * Len(Digits) + DigitVal(cs[Len(cs)])

AllDigits(cs) == cs # << >> /\ \A i \in 1..Len(cs) : IsDigit(cs[i])

(* Python's int(x) on a JSON value: an int is itself, a bool 0/1, a string *)
(* is parsed as an optionally signed decimal (ValueError otherwise), None  *)
(* raises TypeError.  ok = FALSE stands for the exception.                 *)
PyInt(v) ==
    CASE v.kind = "int" -> [ok |-> TRUE, val |-> v.n]
      [] v.kind = "bool" -> [ok |-> TRUE, val |-> v.n]
      [] v.kind = "str" ->
            IF AllDigits(v.s) THEN [ok |-> TRUE, val |-> DecimalValue(v.s)]
            ELSE IF Len(v.s) > 1 /\ v.s[1] \in {"+", "-"} /\ AllDigits(Tail(v.s))
                 THEN [ok |-> TRUE,
                       val |-> IF v.s[1] = "-" THEN -DecimalValue(Tail(v.s))
                               ELSE DecimalValue(Tail(v.s))]
                 ELSE [ok |-> FALSE, val |-> 0]
      [] OTHER -> [ok |-> FALSE, val |-> 0]

(* Python's bool(x). *)
PyBool(v) ==
    CASE v.kind = "null" -> FALSE
      [] v.kind = "str" -> v.s # << >>
      [] OTHER -> v.n # 0

(* str(x) as csv.writer applies it to a cell that is not a string already. *)
RECURSIVE DecimalChars(_)
DecimalChars(i) ==
    IF i < Len(Digits) THEN << Digits[i + 1] >>
    ELSE Append(DecimalChars(i \div Len(Digits)), Digits[(i % Len(Digits)) + 1])

CsvCell(v) ==
    CASE v.kind = "int" ->
            JStr(IF v.n < 0 THEN << "-" >> \o DecimalChars(-v.n) ELSE DecimalChars(v.n))
      [] v.kind = "null" -> JStr(<< >>)
      [] OTHER -> v

----------------------------------------------------------------------------
(* The shared records. *)

SettingFields == {"power", "set_temp", "mode", "fan_speed", "timer", "swing"}

(* The order in which both handlers go through the setting fields. *)
FieldOrder == << "power", "set_temp", "mode", "fan_speed", "timer", "swing" >>

Unset ==
    [power |-> None, set_temp |-> None, mode |-> None, fan_speed |-> None,
     timer |-> None, swing |-> None]

(* hvac_settings has no 'source' key until a handler stores one. *)
NoSource == "absent"

InitHvac ==
    [power |-> None, set_temp |-> None, mode |-> None, fan_speed |-> None,
     timer |-> None, swing |-> None, timestamp |-> None, source |-> NoSource]

InitLatest == [temperature |-> None, humidity |-> None, timestamp |-> None]

InitSchedule ==
    [enabled |-> FALSE,
     start_time |-> JStr(<< "2", "3", ":", "0", "0" >>),
     end_time |-> JStr(<< "0", "5", ":", "0", "0" >>),
     timestamp |-> None]

(* DATA_FILE: whether it exists, and its rows (each a tuple of cells). *)
Header ==
    << JStr(<< "T", "i", "m", "e", "s", "t", "a", "m", "p" >>),
       JStr(<< "T", "e", "m", "p", "e", "r", "a", "t", "u", "r", "e" >>),
       JStr(<< "H", "u", "m", "i", "d", "i", "t", "y" >>) >>

(* The file as a process start can find it: not there, there with no    *)
(* byte in it (init_csv killed between open and writerow leaves that),    *)
(* or the log of an earlier run.                                          *)
Absent == [exists |-> FALSE, rows |-> << >>]
Empty == [exists |-> TRUE, rows |-> << >>]
HeaderOnly == [exists |-> TRUE, rows |-> << Header >>]

(* init_csv (lines 40-44): only a file that is not there is created, with *)
(* the header; a file that is there is not opened.                        *)
InitCsv(file) == IF ~file.exists THEN HeaderOnly ELSE file

Free == "free"

(* A request body's dict of setting fields: has is its key set, val the    *)
(* values of the keys it has.  d.get(k) is None for a key it has not.      *)
Dict(has, val) == [has |-> has, val |-> val]
DictGet(d, k) == IF k \in d.has THEN d.val[k] ELSE None

----------------------------------------------------------------------------
(* Request bodies the clients send. *)

On == JStr(<< "o", "n" >>)
Off == JStr(<< "o", "f", "f" >>)
Cool == JStr(<< "c", "o", "o", "l" >>)
Heat == JStr(<< "h", "e", "a", "t" >>)
Low == JStr(<< "l", "o", "w" >>)
High == JStr(<< "h", "i", "g", "h" >>)

(* POST /api/hvac/update bodies. *)
WebPowerOnly == Dict({"power"}, [Unset EXCEPT !.power = On])
WebLowest == Dict({"power", "set_temp"}, [Unset EXCEPT !.power = On, !.set_temp = JInt(16)])
WebHighest == Dict({"set_temp", "mode"}, [Unset EXCEPT !.set_temp = JInt(30), !.mode = Cool])
WebTooHot == Dict({"power", "set_temp"}, [Unset EXCEPT !.power = Off, !.set_temp = JInt(31)])
WebTooCold == Dict({"set_temp", "fan_speed"}, [Unset EXCEPT !.set_temp = JInt(15), !.fan_speed = High])
WebNoTemp == Dict({"timer", "swing"}, [Unset EXCEPT !.timer = JInt(30), !.swing = On])
WebTextTemp == Dict({"set_temp"}, [Unset EXCEPT !.set_temp = JStr(<< "2", "4" >>)])
WebBadTemp == Dict({"power", "set_temp"}, [Unset EXCEPT !.power = Off, !.set_temp = JStr(<< "a", "b" >>)])

(* The bodies the two racing clients send. *)
RaceWebRequests == {WebLowest, WebHighest, WebTooHot}

WebRequests ==
    {WebPowerOnly, WebLowest, WebHighest, WebTooHot, WebTooCold, WebNoTemp,
     WebTextTemp, WebBadTemp}

(* POST /api/data bodies: 'hvac' may be missing (present = FALSE). *)
NoHvac == [present |-> FALSE, isdict |-> FALSE, has |-> {}, val |-> Unset]
NullHvac == [present |-> TRUE, isdict |-> FALSE, has |-> {}, val |-> Unset]
HvacDict(has, val) == [present |-> TRUE, isdict |-> TRUE, has |-> has, val |-> val]

FullSnapshot ==
    HvacDict(SettingFields,
             [power |-> Off, set_temp |-> JInt(24), mode |-> Heat,
              fan_speed |-> Low, timer |-> JInt(0), swing |-> Off])
HotSnapshot == HvacDict({"power", "set_temp"}, [Unset EXCEPT !.power = On, !.set_temp = JInt(99)])

Reading(t, h, hv) == [temperature |-> t, humidity |-> h, hvac |-> hv]

RaceIngestRequests ==
    {Reading(JInt(26), JInt(55), FullSnapshot),
     Reading(JInt(27), JInt(50), HotSnapshot)}

IngestRequests ==
    {Reading(JInt(25), JInt(60), NoHvac),
     Reading(JInt(26), JInt(55), FullSnapshot),
     Reading(JInt(27), JInt(50), HotSnapshot),
     Reading(JInt(28), None, FullSnapshot),
     Reading(JInt(29), JInt(45), NullHvac),
     Reading(None, JInt(45), HotSnapshot)}

----------------------------------------------------------------------------
(* Handler threads. *)

RdIds == {"rd1", "rd2"}

MinTemp == 16
MaxTemp == 30

NoResp == [status |-> 0, timestamp |-> None, settings |-> << >>]
Resp(status, timestamp, settings) ==
    [status |-> status, timestamp |-> timestamp, settings |-> settings]

RdIdle ==
    [pc |-> "idle", data |-> Reading(None, None, NoHvac), temperature |-> None,
     humidity |-> None, timestamp |-> None, ioerr |-> FALSE, resp |-> NoResp]

UhIdle ==
    [pc |-> "idle", data |-> Dict({}, Unset), now |-> None, resp |-> NoResp]

(* Positions, named by the source line about to run. *)
RdHvacPcs == << "l79", "l80", "l81", "l82", "l83", "l84" >>
UhFieldPcs == << "l117", "l119", "l126", "l128", "l130", "l132" >>

(* update_hvac after field i: the store of the next field the body has    *)
(* (the `in data` tests between them read nothing shared), else line 135. *)
NextUhPc(data, i) ==
    LET later == {j \in (i + 1)..Len(FieldOrder) : FieldOrder[j] \in data.has}
    IN IF later = {} THEN "l135"
       ELSE UhFieldPcs[CHOOSE j \in later : \A k \in later : j <= k]

(* The six setting fields and the origin of a record, without its time. *)
Settings(h) ==
    [power |-> h.power, set_temp |-> h.set_temp, mode |-> h.mode,
     fan_speed |-> h.fan_speed, timer |-> h.timer, swing |-> h.swing,
     source |-> h.source]

RdWritingPcs == {"l72", "l73", "l74", "l79", "l80", "l81", "l82", "l83", "l84", "l85", "l87"}
UhWritingPcs == {"l117", "l119", "l126", "l128", "l130", "l132", "l135", "l135s", "l136"}

RdWriting(r) == r.pc \in RdWritingPcs /\ r.data.hvac.present /\ r.data.hvac.isdict
UhWriting(u) == u.pc \in UhWritingPcs

----------------------------------------------------------------------------
(* History variables: hist.base is hvac_settings as it was when the     *)
(* first of the writes now (or last) in progress began, hist.started the  *)
(* writes begun since then, hist.pending the last web command stored, if  *)
(* no poll and no further web request came since, and whether a device    *)
(* report was stored after it, hist.schedOp the last schedule request    *)
(* served and hist.schedPre schedule_settings as that request found it.   *)

(* hist.bootPre is the file as the last process start found it and       *)
(* hist.bootPost as init_csv left it, hist.readings the readings that     *)
(* passed line 66 since, hist.succeeded how many ingests were answered    *)
(* 200 since.                                                             *)

InitHist ==
    [base |-> InitHvac, started |-> << >>, pending |-> << >>,
     schedOp |-> "none", schedPre |-> InitSchedule,
     bootPre |-> Absent, bootPost |-> HeaderOnly, readings |-> {}, succeeded |-> 0]

Write(origin, d) == [origin |-> origin, has |-> d.has, val |-> d.val]

AnyWriting == UhWriting(uh) \/ \E t \in RdIds : RdWriting(rd[t])

Began(w) ==
    IF AnyWriting THEN [hist EXCEPT !.started = Append(@, w)]
    ELSE [hist EXCEPT !.base = hvac_settings, !.started = << w >>]

----------------------------------------------------------------------------
(* receive_data, POST /api/data (server.py:58-98), on thread t. *)

(* The fault of testing the temperature alone. *)
NoTemperature(data) == data.temperature = None

(* Line 66: data.get gives None for a key the body has not (or has as     *)
(* null).                                                                 *)
MissingField(data) == data.temperature = None \/ data.humidity = None

(* Lines 62-69: parse the body, reject a missing temperature or humidity, *)
(* else sample the clock.                                                 *)
ReceiveStart(t, reqs) ==
    /\ rd[t].pc = "idle"
    /\ nreq < MaxRequests
    /\ nreq' = nreq + 1
    /\ \E data \in reqs :
         IF MissingField(data)
         THEN /\ rd' = [rd EXCEPT ![t] =
                        [RdIdle EXCEPT !.pc = "done", !.data = data,
                                       !.resp = Resp(400, None, << >>)]]
              /\ hist' = hist
         ELSE /\ rd' = [rd EXCEPT ![t] =
                        [RdIdle EXCEPT !.pc = "l72", !.data = data,
                                       !.temperature = data.temperature,
                                       !.humidity = data.humidity,
                                       !.timestamp = TimeStr(clock)]]
              /\ hist' = [(IF data.hvac.present /\ data.hvac.isdict
                           THEN Began(Write("arduino", data.hvac))
                           ELSE hist)
                          EXCEPT !.readings =
                              @ \cup {[temperature |-> data.temperature,
                                       humidity |-> data.humidity,
                                       timestamp |-> TimeStr(clock)]}]
    /\ UNCHANGED << latest_data, hvac_settings, schedule_settings, csv_file,
                    csv_lock, clock, uh, cmdResp, statusResp, schedResp,
                    currentResp, gh >>

(* Lines 72-74: the three stores to latest_data, one at a time. *)
ReceiveLatest(t) ==
    /\ rd[t].pc \in {"l72", "l73", "l74"}
    /\ latest_data' =
         CASE rd[t].pc = "l72" -> [latest_data EXCEPT !.temperature = rd[t].temperature]
           [] rd[t].pc = "l73" -> [latest_data EXCEPT !.humidity = rd[t].humidity]
           [] rd[t].pc = "l74" -> [latest_data EXCEPT !.timestamp = rd[t].timestamp]
    /\ rd' = [rd EXCEPT ![t].pc =
                 CASE rd[t].pc = "l72" -> "l73"
                   [] rd[t].pc = "l73" -> "l74"
                   [] rd[t].pc = "l74" ->
                        IF rd[t].data.hvac.present THEN "l79" ELSE "l90"]
    /\ UNCHANGED << hvac_settings, schedule_settings, csv_file, csv_lock, clock,
                    uh, cmdResp, statusResp, schedResp, nreq, hist,
                    currentResp, gh >>

(* What line 79..84 stores in field f: hvac.get(f), None for a key the    *)
(* snapshot has not.                                                      *)
ReceivedValue(hvac, f) == DictGet(hvac, f)

(* Lines 79-84: one store per setting field; hvac.get raises on a         *)
(* snapshot that is no dict, caught at line 97.                           *)
ReceiveHvac(t) ==
    /\ \E i \in 1..Len(RdHvacPcs) :
         /\ rd[t].pc = RdHvacPcs[i]
         /\ IF rd[t].data.hvac.isdict
            THEN /\ hvac_settings' =
                      [hvac_settings EXCEPT
                         ![FieldOrder[i]] = ReceivedValue(rd[t].data.hvac, FieldOrder[i])]
                 /\ rd' = [rd EXCEPT ![t].pc =
                              IF i < Len(RdHvacPcs) THEN RdHvacPcs[i + 1] ELSE "l85"]
            ELSE /\ hvac_settings' = hvac_settings
                 /\ rd' = [rd EXCEPT ![t].pc = "done",
                                     ![t].resp = Resp(500, None, << >>)]
    /\ UNCHANGED << latest_data, schedule_settings, csv_file, csv_lock, clock,
                    uh, cmdResp, statusResp, schedResp, nreq, hist,
                    currentResp, gh >>

(* Line 85: the timestamp sampled at line 69 is stored. *)
ReceiveStamp(t) ==
    /\ rd[t].pc = "l85"
    /\ hvac_settings' = [hvac_settings EXCEPT !.timestamp = rd[t].timestamp]
    /\ rd' = [rd EXCEPT ![t].pc = "l87"]
    /\ UNCHANGED << latest_data, schedule_settings, csv_file, csv_lock, clock,
                    uh, cmdResp, statusResp, schedResp, nreq, hist,
                    currentResp, gh >>

(* Line 87: the origin is stored; the device's report now stands, and a   *)
(* web command stored before it is no longer what a poll returns.         *)
ReceiveSource(t) ==
    /\ rd[t].pc = "l87"
    /\ hvac_settings' = [hvac_settings EXCEPT !.source = "arduino"]
    /\ rd' = [rd EXCEPT ![t].pc = "l90"]
    /\ hist' = IF hist.pending = << >> THEN hist
               ELSE [hist EXCEPT !.pending[1].reported = TRUE]
    /\ UNCHANGED << latest_data, schedule_settings, csv_file, csv_lock, clock,
                    uh, cmdResp, statusResp, schedResp, nreq,
                    currentResp, gh >>

(* The fault of entering without waiting for the lock. *)
EnterWithoutLock(t) ==
    /\ rd[t].pc = "l90"
    /\ csv_lock' = t
    /\ rd' = [rd EXCEPT ![t].pc = "l91"]
    /\ UNCHANGED << latest_data, hvac_settings, schedule_settings, csv_file,
                    clock, uh, cmdResp, statusResp, schedResp, nreq, hist,
                    currentResp, gh >>

(* Line 90: `with csv_lock` blocks until the lock is free. *)
ReceiveAcquire(t) ==
    /\ rd[t].pc = "l90"
    /\ csv_lock = Free
    /\ csv_lock' = t
    /\ rd' = [rd EXCEPT ![t].pc = "l91"]
    /\ UNCHANGED << latest_data, hvac_settings, schedule_settings, csv_file,
                    clock, uh, cmdResp, statusResp, schedResp, nreq, hist,
                    currentResp, gh >>

(* Lines 91-93: open for append (creating the file) and write one row;    *)
(* the storage may fail, which raises.                                    *)
ReceiveAppend(t, outcomes) ==
    /\ rd[t].pc = "l91"
    /\ \E ok \in outcomes :
         IF ok
         THEN /\ csv_file' =
                   [exists |-> TRUE,
                    rows |-> Append(csv_file.rows,
                                    << CsvCell(rd[t].timestamp),
                                       CsvCell(rd[t].temperature),
                                       CsvCell(rd[t].humidity) >>)]
              /\ rd' = [rd EXCEPT ![t].pc = "l93"]
         ELSE /\ csv_file' = csv_file
              /\ rd' = [rd EXCEPT ![t].pc = "l93", ![t].ioerr = TRUE]
    /\ UNCHANGED << latest_data, hvac_settings, schedule_settings, csv_lock,
                    clock, uh, cmdResp, statusResp, schedResp, nreq, hist,
                    currentResp, gh >>

(* The fault of a lock released on the normal way out only. *)
ReleaseUnlessError(t) ==
    /\ rd[t].pc = "l93"
    /\ csv_lock' = IF rd[t].ioerr THEN csv_lock ELSE Free
    /\ rd' = [rd EXCEPT ![t].pc = "done",
                        ![t].resp = IF rd[t].ioerr THEN Resp(500, None, << >>)
                                    ELSE Resp(200, rd[t].timestamp, << >>)]
    /\ hist' = IF rd[t].ioerr THEN hist ELSE [hist EXCEPT !.succeeded = @ + 1]
    /\ UNCHANGED << latest_data, hvac_settings, schedule_settings, csv_file,
                    clock, uh, cmdResp, statusResp, schedResp, nreq,
                    currentResp, gh >>

(* Leaving `with csv_lock` (normally or by the exception) releases the    *)
(* lock; then line 95 or line 98 answers.                                 *)
ReceiveRelease(t) ==
    /\ rd[t].pc = "l93"
    /\ csv_lock' = Free
    /\ rd' = [rd EXCEPT ![t].pc = "done",
                        ![t].resp = IF rd[t].ioerr THEN Resp(500, None, << >>)
                                    ELSE Resp(200, rd[t].timestamp, << >>)]
    /\ hist' = IF rd[t].ioerr THEN hist ELSE [hist EXCEPT !.succeeded = @ + 1]
    /\ UNCHANGED << latest_data, hvac_settings, schedule_settings, csv_file,
                    clock, uh, cmdResp, statusResp, schedResp, nreq,
                    currentResp, gh >>

(* The response is sent and the thread serves the next request. *)
ReceiveReturn(t) ==
    /\ rd[t].pc = "done"
    /\ rd' = [rd EXCEPT ![t] = RdIdle]
    /\ UNCHANGED << latest_data, hvac_settings, schedule_settings, csv_file,
                    csv_lock, clock, uh, cmdResp, statusResp, schedResp, nreq, hist,
                    currentResp, gh >>

----------------------------------------------------------------------------
(* update_hvac, POST /api/hvac/update (server.py:110-141). *)

(* The command as stored: set_temp as the int line 121 makes of it. *)
Commanded(data) ==
    Dict(data.has,
         IF "set_temp" \in data.has
         THEN [data.val EXCEPT !.set_temp = JInt(PyInt(data.val.set_temp).val)]
         ELSE data.val)

(* Line 114: the body is parsed. *)
UpdateStart(reqs) ==
    /\ uh.pc = "idle"
    /\ nreq < MaxRequests
    /\ nreq' = nreq + 1
    /\ \E data \in reqs :
         /\ uh' = [UhIdle EXCEPT !.pc = NextUhPc(data, 0), !.data = data]
         /\ hist' = [Began(Write("web", data)) EXCEPT !.pending = << >>]
    /\ UNCHANGED << latest_data, hvac_settings, schedule_settings, csv_file,
                    csv_lock, clock, rd, cmdResp, statusResp, schedResp,
                    currentResp, gh >>

(* The fault of a strict lower bound: 16 < temp <= 30. *)
TempAboveMin(temp) == MinTemp < temp /\ temp <= MaxTemp

(* Line 122: the range a commanded temperature must be in. *)
TempInRange(temp) == MinTemp <= temp /\ temp <= MaxTemp

(* Lines 117-133: the store of one field the body has.  set_temp goes     *)
(* through int() (which may raise: line 140) and the range test, and an   *)
(* out-of-range value returns 400 at line 125.                            *)
UpdateStore ==
    /\ \E i \in 1..Len(UhFieldPcs) :
         LET f == FieldOrder[i]
             temp == PyInt(uh.data.val.set_temp)
             stop(status) ==
                 /\ hvac_settings' = hvac_settings
                 /\ uh' = [uh EXCEPT !.pc = "done", !.resp = Resp(status, None, << >>)]
             store(v) ==
                 /\ hvac_settings' = [hvac_settings EXCEPT ![f] = v]
                 /\ uh' = [uh EXCEPT !.pc = NextUhPc(uh.data, i)]
         IN /\ uh.pc = UhFieldPcs[i]
            /\ IF f = "set_temp"
               THEN IF ~temp.ok THEN stop(500)
                    ELSE IF TempInRange(temp.val) THEN store(JInt(temp.val))
                    ELSE stop(400)
               ELSE store(uh.data.val[f])
    /\ UNCHANGED << latest_data, schedule_settings, csv_file, csv_lock, clock,
                    rd, cmdResp, statusResp, schedResp, nreq, hist,
                    currentResp, gh >>

(* Line 135, right-hand side: datetime.now() is read. *)
UpdateNow ==
    /\ uh.pc = "l135"
    /\ uh' = [uh EXCEPT !.pc = "l135s", !.now = TimeStr(clock)]
    /\ UNCHANGED << latest_data, hvac_settings, schedule_settings, csv_file,
                    csv_lock, clock, rd, cmdResp, statusResp, schedResp, nreq, hist,
                    currentResp, gh >>

(* Line 135: the store of the timestamp. *)
UpdateStamp ==
    /\ uh.pc = "l135s"
    /\ hvac_settings' = [hvac_settings EXCEPT !.timestamp = uh.now]
    /\ uh' = [uh EXCEPT !.pc = "l136"]
    /\ UNCHANGED << latest_data, schedule_settings, csv_file, csv_lock, clock,
                    rd, cmdResp, statusResp, schedResp, nreq, hist,
                    currentResp, gh >>

(* Line 136: the origin is stored; the command now waits for the device's *)
(* next poll.                                                             *)
UpdateSource ==
    /\ uh.pc = "l136"
    /\ hvac_settings' = [hvac_settings EXCEPT !.source = "web"]
    /\ uh' = [uh EXCEPT !.pc = "l138"]
    /\ hist' = [hist EXCEPT
                  !.pending = << [cmd |-> Commanded(uh.data), reported |-> FALSE] >>]
    /\ UNCHANGED << latest_data, schedule_settings, csv_file, csv_lock, clock,
                    rd, cmdResp, statusResp, schedResp, nreq,
                    currentResp, gh >>

(* Line 138: the answer carries the record as it is now. *)
UpdateRespond ==
    /\ uh.pc = "l138"
    /\ uh' = [uh EXCEPT !.pc = "done",
                        !.resp = Resp(200, None, << hvac_settings >>)]
    /\ UNCHANGED << latest_data, hvac_settings, schedule_settings, csv_file,
                    csv_lock, clock, rd, cmdResp, statusResp, schedResp, nreq, hist,
                    currentResp, gh >>

UpdateReturn ==
    /\ uh.pc = "done"
    /\ uh' = UhIdle
    /\ UNCHANGED << latest_data, hvac_settings, schedule_settings, csv_file,
                    csv_lock, clock, rd, cmdResp, statusResp, schedResp, nreq, hist,
                    currentResp, gh >>

----------------------------------------------------------------------------
(* get_hvac_command, GET /api/hvac/command (server.py:143-146): the       *)
(* device's poll; it takes no lock and returns the record as it is.       *)

NoPoll == [settings |-> InitHvac, pending |-> << >>]

GetHvacCommand ==
    /\ cmdResp' = [settings |-> hvac_settings, pending |-> hist.pending]
    /\ hist' = [hist EXCEPT !.pending = << >>]
    /\ UNCHANGED << latest_data, hvac_settings, schedule_settings, csv_file,
                    csv_lock, clock, rd, uh, statusResp, schedResp, nreq,
                    currentResp, gh >>

(* get_current, GET /api/current (lines 100-103): latest_data as it is,   *)
(* under no lock.                                                         *)
NoCurrent == [asked |-> FALSE, data |-> InitLatest]

GetCurrent ==
    /\ currentResp' = [asked |-> TRUE, data |-> latest_data]
    /\ UNCHANGED << latest_data, hvac_settings, schedule_settings, csv_file,
                    csv_lock, clock, rd, uh, cmdResp, statusResp, schedResp,
                    gh, nreq, hist >>

----------------------------------------------------------------------------
(* get_history, GET /api/history (server.py:219-232), on thread "gh". *)

HistoryLimit == 50

GhId == "gh"
NoHistory == [status |-> 0, rows |-> << >>]
GhIdle == [pc |-> "idle", history |-> << >>, ioerr |-> FALSE, resp |-> NoHistory]

(* One row as csv.DictReader yields it: the cells keyed by the names the  *)
(* first row of the file gives; of two equal names the later cell stays.  *)
DictRow(names, row) ==
    [k \in {names[j] : j \in 1..Len(names)} |->
        LET js == {j \in 1..Len(names) : names[j] = k}
        IN row[CHOOSE j \in js : \A i \in js : i <= j]]

(* Lines 227-229: the first row is taken as the field names, whatever it  *)
(* holds, and every further row becomes one dict.                         *)
DictReader(rows) ==
    IF rows = << >> THEN << >>
    ELSE [i \in 1..(Len(rows) - 1) |-> DictRow(rows[1], rows[i + 1])]

(* history[-n:] and seq[::-1]. *)
LastN(seq, n) ==
    IF Len(seq) <= n THEN seq ELSE SubSeq(seq, Len(seq) - n + 1, Len(seq))
Reversed(seq) == [i \in 1..Len(seq) |-> seq[Len(seq) + 1 - i]]

(* The fault of answering in file order. *)
OldestFirst(history) == LastN(history, HistoryLimit)

(* Line 232. *)
RecentFirst(history) == Reversed(LastN(history, HistoryLimit))

(* Line 222. *)
GetHistoryStart ==
    /\ gh.pc = "idle"
    /\ nreq < MaxRequests
    /\ nreq' = nreq + 1
    /\ gh' = [GhIdle EXCEPT !.pc = "l224"]
    /\ UNCHANGED << latest_data, hvac_settings, schedule_settings, csv_file,
                    csv_lock, clock, rd, uh, cmdResp, statusResp, schedResp,
                    currentResp, hist >>

(* Line 224: `with csv_lock` blocks until the lock is free. *)
HistoryAcquire ==
    /\ gh.pc = "l224"
    /\ csv_lock = Free
    /\ csv_lock' = GhId
    /\ gh' = [gh EXCEPT !.pc = "l225"]
    /\ UNCHANGED << latest_data, hvac_settings, schedule_settings, csv_file,
                    clock, rd, uh, cmdResp, statusResp, schedResp,
                    currentResp, nreq, hist >>

(* Lines 225-229: a file that is there is opened and read whole; the      *)
(* storage may fail, which raises, and nothing in get_history catches it. *)
HistoryRead(outcomes) ==
    /\ gh.pc = "l225"
    /\ IF csv_file.exists
       THEN \E ok \in outcomes :
              IF ok
              THEN gh' = [gh EXCEPT !.pc = "l230", !.history = DictReader(csv_file.rows)]
              ELSE gh' = [gh EXCEPT !.pc = "l230", !.ioerr = TRUE]
       ELSE gh' = [gh EXCEPT !.pc = "l230"]
    /\ UNCHANGED << latest_data, hvac_settings, schedule_settings, csv_file,
                    csv_lock, clock, rd, uh, cmdResp, statusResp, schedResp,
                    currentResp, nreq, hist >>

(* Leaving `with csv_lock` (normally or by the exception) releases the    *)
(* lock; then line 232 answers, or Flask answers the uncaught exception   *)
(* with 500.                                                              *)
HistoryRelease ==
    /\ gh.pc = "l230"
    /\ csv_lock' = Free
    /\ gh' = [gh EXCEPT !.pc = "done",
                        !.resp = IF gh.ioerr THEN [status |-> 500, rows |-> << >>]
                                 ELSE [status |-> 200, rows |-> RecentFirst(gh.history)]]
    /\ UNCHANGED << latest_data, hvac_settings, schedule_settings, csv_file,
                    clock, rd, uh, cmdResp, statusResp, schedResp,
                    currentResp, nreq, hist >>

(* The response is sent and the thread serves the next request. *)
HistoryReturn ==
    /\ gh.pc = "done"
    /\ gh' = GhIdle
    /\ UNCHANGED << latest_data, hvac_settings, schedule_settings, csv_file,
                    csv_lock, clock, rd, uh, cmdResp, statusResp, schedResp,
                    currentResp, nreq, hist >>

----------------------------------------------------------------------------
(* datetime.now() moves on. *)
Tick ==
    /\ clock < MaxClock
    /\ clock' = clock + 1
    /\ UNCHANGED << latest_data, hvac_settings, schedule_settings, csv_file,
                    csv_lock, rd, uh, cmdResp, statusResp, schedResp, nreq, hist,
                    currentResp, gh >>

----------------------------------------------------------------------------
(* Strings as Python compares them: by code point, a proper prefix first. *)

StrLess(a, b) ==
    \E i \in 1..(Len(a) + 1) :
        /\ i <= Len(b)
        /\ \A k \in 1..(i - 1) : a[k] = b[k]
        /\ (i = Len(a) + 1 \/ Ord(a[i]) < Ord(b[i]))

StrLessEq(a, b) == a = b \/ StrLess(a, b)

(* datetime.strptime(x, '%H:%M'): the whole string must match             *)
(* (2[0-3]|[0-1]\d|\d):([0-5]\d|\d), so one or two digits either side of  *)
(* the colon; ok = FALSE stands for ValueError.                           *)
StrptimeHM(cs) ==
    LET colons == {i \in 1..Len(cs) : cs[i] = ":"}
        ci == CHOOSE i \in colons : TRUE
        h == SubSeq(cs, 1, ci - 1)
        m == SubSeq(cs, ci + 1, Len(cs))
    IN IF /\ Cardinality(colons) = 1
          /\ AllDigits(h) /\ Len(h) <= 2 /\ DecimalValue(h) <= 23
          /\ AllDigits(m) /\ Len(m) <= 2 /\ DecimalValue(m) <= 59
       THEN [ok |-> TRUE, hour |-> DecimalValue(h), minute |-> DecimalValue(m)]
       ELSE [ok |-> FALSE, hour |-> 0, minute |-> 0]

(* now.strftime('%H:%M') at minute m of the day: zero-padded. *)
StrftimeHM(m) ==
    << Digits[((m \div 60) \div 10) + 1], Digits[((m \div 60) % 10) + 1], ":",
       Digits[((m % 60) \div 10) + 1], Digits[((m % 60) % 10) + 1] >>

----------------------------------------------------------------------------
(* update_schedule, POST /api/schedule/update (server.py:153-181), and    *)
(* get_schedule_status, GET /api/schedule/status (server.py:183-217).     *)

(* The answer of each endpoint to the last schedule request, if that     *)
(* request was its own.                                                   *)
NoStatus ==
    [schedule_active |-> FALSE, should_be_on |-> None, current_time |-> None,
     start_time |-> None, end_time |-> None]
NoSchedResp == [status |-> 0]

T2300 == JStr(<< "2", "3", ":", "0", "0" >>)
T0500 == JStr(<< "0", "5", ":", "0", "0" >>)
T0800 == JStr(<< "0", "8", ":", "0", "0" >>)
T1000 == JStr(<< "1", "0", ":", "0", "0" >>)
T900 == JStr(<< "9", ":", "0", "0" >>)
T2400 == JStr(<< "2", "4", ":", "0", "0" >>)
T1260 == JStr(<< "1", "2", ":", "6", "0" >>)

SchedBody(has, enabled, start_time, end_time) ==
    [has |-> has, enabled |-> enabled, start_time |-> start_time,
     end_time |-> end_time]

ScheduleRequests ==
    {SchedBody({"enabled"}, JBool(TRUE), None, None),
     SchedBody({"enabled"}, JBool(FALSE), None, None),
     SchedBody({"start_time", "end_time"}, None, T2300, T0500),
     SchedBody({"start_time", "end_time"}, None, T0800, T1000),
     SchedBody({"start_time", "end_time"}, None, T1000, T1000),
     SchedBody({"enabled", "start_time", "end_time"}, JBool(TRUE), T900, T1000),
     SchedBody({"enabled", "start_time"}, JBool(TRUE), T2400, None),
     SchedBody({"enabled", "start_time", "end_time"}, JBool(FALSE), T0800, T1260),
     SchedBody({"start_time"}, None, JInt(8), None)}

(* The minutes of the day at which the status is asked: 00:00, 04:59,     *)
(* 05:00, 08:00, 09:30, 10:00, 12:00, 23:00, 23:30.                       *)
NowMinutes == {0, 299, 300, 480, 570, 600, 720, 1380, 1410}

(* Lines 161-167 and 168-174: one time field of the body.  A value that   *)
(* is no string makes strptime raise TypeError (line 180: 500), one that  *)
(* does not match ValueError (400); else the string is stored as given.   *)
TimeField(v) ==
    IF v.kind # "str" THEN 500
    ELSE IF ~StrptimeHM(v.s).ok THEN 400
    ELSE 200

(* The handler run to its return: the record it leaves and its status. *)
ScheduleUpdate(sched, data, now) ==
    LET s1 == IF "enabled" \in data.has
              THEN [sched EXCEPT !.enabled = PyBool(data.enabled)]
              ELSE sched
        c2 == IF "start_time" \in data.has THEN TimeField(data.start_time) ELSE 200
        s2 == IF "start_time" \in data.has
              THEN [s1 EXCEPT !.start_time = data.start_time]
              ELSE s1
        c3 == IF "end_time" \in data.has THEN TimeField(data.end_time) ELSE 200
        s3 == IF "end_time" \in data.has
              THEN [s2 EXCEPT !.end_time = data.end_time]
              ELSE s2
    IN IF c2 # 200 THEN [settings |-> s1, status |-> c2]
       ELSE IF c3 # 200 THEN [settings |-> s2, status |-> c3]
       ELSE [settings |-> [s3 EXCEPT !.timestamp = now], status |-> 200]

UpdateSchedule(reqs) ==
    /\ \E data \in reqs :
         LET r == ScheduleUpdate(schedule_settings, data, TimeStr(clock))
         IN /\ schedule_settings' = r.settings
            /\ schedResp' = [status |-> r.status]
    /\ statusResp' = NoStatus
    /\ hist' = [hist EXCEPT !.schedOp = "update", !.schedPre = schedule_settings]
    /\ UNCHANGED << latest_data, hvac_settings, csv_file, csv_lock, clock, rd,
                    uh, cmdResp, nreq, currentResp, gh >>

(* Lines 197-214: the answer of an enabled schedule at current_time (a   *)
(* string); start, end and current_time are compared as strings.          *)
WindowStatus(sched, current_time) ==
    LET start == sched.start_time.s
        end == sched.end_time.s
        should_be_on ==
            IF StrLess(end, start)
            THEN StrLessEq(start, current_time) \/ StrLess(current_time, end)
            ELSE StrLessEq(start, current_time) /\ StrLess(current_time, end)
    IN [schedule_active |-> TRUE, should_be_on |-> JBool(should_be_on),
        current_time |-> JStr(current_time),
        start_time |-> sched.start_time, end_time |-> sched.end_time]

(* The fault of a status that skips the test of line 187. *)
StatusIgnoringEnabled(sched, current_time) == WindowStatus(sched, current_time)

(* Lines 187-214: a disabled schedule is answered at once (187-192). *)
ScheduleStatus(sched, current_time) ==
    IF ~sched.enabled
    THEN [schedule_active |-> FALSE, should_be_on |-> None, current_time |-> None,
          start_time |-> None, end_time |-> None]
    ELSE WindowStatus(sched, current_time)

GetScheduleStatus ==
    /\ \E m \in NowMinutes :
         statusResp' = ScheduleStatus(schedule_settings, StrftimeHM(m))
    /\ schedResp' = NoSchedResp
    /\ hist' = [hist EXCEPT !.schedOp = "status", !.schedPre = schedule_settings]
    /\ UNCHANGED << latest_data, hvac_settings, schedule_settings, csv_file,
                    csv_lock, clock, rd, uh, cmdResp, nreq, currentResp, gh >>

----------------------------------------------------------------------------
(* The state after the module is imported in a fresh directory: the dicts *)
(* of lines 14-37, and the file init_csv (line 46) has just created.      *)

Init ==
    /\ latest_data = InitLatest
    /\ hvac_settings = InitHvac
    /\ schedule_settings = InitSchedule
    /\ csv_file = [exists |-> TRUE, rows |-> << Header >>]
    /\ csv_lock = Free
    /\ clock = 0
    /\ rd = [t \in RdIds |-> RdIdle]
    /\ uh = UhIdle
    /\ cmdResp = NoPoll
    /\ statusResp = NoStatus
    /\ schedResp = NoSchedResp
    /\ currentResp = NoCurrent
    /\ gh = GhIdle
    /\ nreq = 0
    /\ hist = InitHist

Quiet == uh.pc = "idle" /\ gh.pc = "idle" /\ \A t \in RdIds : rd[t].pc = "idle"

(* The threaded server: one device posting readings, one web client      *)
(* posting commands, their handlers interleaved access by access.         *)
Next ==
    \/ ReceiveStart("rd1", RaceIngestRequests)
    \/ ReceiveLatest("rd1")
    \/ ReceiveHvac("rd1")
    \/ ReceiveStamp("rd1")
    \/ ReceiveSource("rd1")
    \/ ReceiveAcquire("rd1")
    \/ ReceiveAppend("rd1", {TRUE})
    \/ ReceiveRelease("rd1")
    \/ ReceiveReturn("rd1")
    \/ UpdateStart(RaceWebRequests)
    \/ UpdateStore
    \/ UpdateNow
    \/ UpdateStamp
    \/ UpdateSource
    \/ UpdateRespond
    \/ UpdateReturn
    \/ Tick

Spec == Init /\ [][Next]_vars

(* The same handlers with one request served at a time. *)
SerialNext ==
    \/ Quiet /\ ReceiveStart("rd1", IngestRequests)
    \/ ReceiveLatest("rd1")
    \/ ReceiveHvac("rd1")
    \/ ReceiveStamp("rd1")
    \/ ReceiveSource("rd1")
    \/ ReceiveAcquire("rd1")
    \/ ReceiveAppend("rd1", {TRUE})
    \/ ReceiveRelease("rd1")
    \/ ReceiveReturn("rd1")
    \/ Quiet /\ UpdateStart(WebRequests)
    \/ UpdateStore
    \/ UpdateNow
    \/ UpdateStamp
    \/ UpdateSource
    \/ UpdateRespond
    \/ UpdateReturn
    \/ Quiet /\ GetHvacCommand
    \/ Tick

SerialSpec == Init /\ [][SerialNext]_vars

(* The schedule endpoints, one request at a time. *)
ScheduleNext ==
    \/ UpdateSchedule(ScheduleRequests)
    \/ GetScheduleStatus
    \/ Tick

ScheduleSpec == Init /\ [][ScheduleNext]_vars

----------------------------------------------------------------------------
(* Process starts over the files a start can find. *)

(* The log an earlier run left: the header and k readings, oldest first. *)
OldRow(i, k) ==
    << TimeStr(i - k - 1), CsvCell(JInt(20 + (i % 10))), CsvCell(JInt(40 + (i % 20))) >>
PriorLog(k) == [exists |-> TRUE, rows |-> << Header >> \o [i \in 1..k |-> OldRow(i, k)]]

PriorLogs == {PriorLog(k) : k \in 0..MaxLogRows}
StoreStates == {Absent, Empty, HeaderOnly, PriorLog(1), PriorLog(2)}

(* The state after the module is imported with the file in one of the    *)
(* states of stores: Init, but for what init_csv (line 46) found.         *)
Boot(stores) ==
    /\ latest_data = InitLatest
    /\ hvac_settings = InitHvac
    /\ schedule_settings = InitSchedule
    /\ \E file \in stores :
         /\ csv_file = InitCsv(file)
         /\ hist = [InitHist EXCEPT !.bootPre = file, !.bootPost = InitCsv(file)]
    /\ csv_lock = Free
    /\ clock = 0
    /\ rd = [t \in RdIds |-> RdIdle]
    /\ uh = UhIdle
    /\ cmdResp = NoPoll
    /\ statusResp = NoStatus
    /\ schedResp = NoSchedResp
    /\ currentResp = NoCurrent
    /\ gh = GhIdle
    /\ nreq = 0

(* The process is stopped and started again: lines 11-37 make the lock    *)
(* and the dicts anew and line 46 runs init_csv on the file as it is.     *)
Restart ==
    /\ latest_data' = InitLatest
    /\ hvac_settings' = InitHvac
    /\ schedule_settings' = InitSchedule
    /\ csv_file' = InitCsv(csv_file)
    /\ csv_lock' = Free
    /\ rd' = [t \in RdIds |-> RdIdle]
    /\ uh' = UhIdle
    /\ gh' = GhIdle
    /\ cmdResp' = NoPoll
    /\ statusResp' = NoStatus
    /\ schedResp' = NoSchedResp
    /\ currentResp' = NoCurrent
    /\ hist' = [InitHist EXCEPT !.bootPre = csv_file, !.bootPost = InitCsv(csv_file)]
    /\ UNCHANGED << clock, nreq >>

(* POST /api/data bodies without an HVAC snapshot. *)
Cool25 == Reading(JInt(25), JInt(60), NoHvac)
Warm26 == Reading(JInt(26), JInt(55), NoHvac)
NoHumidity == Reading(JInt(27), None, NoHvac)

LogIngestRequests == {Cool25, Warm26, NoHumidity}

(* Starts over every file state, and readings posted one at a time. *)
BootNext ==
    \/ Quiet /\ ReceiveStart("rd1", {Cool25})
    \/ ReceiveLatest("rd1")
    \/ ReceiveAcquire("rd1")
    \/ ReceiveAppend("rd1", {TRUE})
    \/ ReceiveRelease("rd1")
    \/ ReceiveReturn("rd1")
    \/ Quiet /\ Restart
    \/ Tick

BootSpec == Boot(StoreStates) /\ [][BootNext]_vars

(* A start over the log of an earlier run, then readings and history     *)
(* requests one at a time, the storage working.                           *)
HistoryNext ==
    \/ Quiet /\ ReceiveStart("rd1", {Cool25, Warm26})
    \/ ReceiveLatest("rd1")
    \/ ReceiveAcquire("rd1")
    \/ ReceiveAppend("rd1", {TRUE})
    \/ ReceiveRelease("rd1")
    \/ ReceiveReturn("rd1")
    \/ Quiet /\ GetHistoryStart
    \/ HistoryAcquire
    \/ HistoryRead({TRUE})
    \/ HistoryRelease
    \/ HistoryReturn
    \/ Tick

HistorySpec == Boot(PriorLogs) /\ [][HistoryNext]_vars

(* The threaded server around the log: two devices posting readings and  *)
(* a client asking for the history, handlers interleaved step by step,    *)
(* the storage failing or not.                                            *)
LogNext ==
    \/ \E t \in RdIds : ReceiveStart(t, LogIngestRequests)
    \/ \E t \in RdIds : ReceiveLatest(t)
    \/ \E t \in RdIds : ReceiveAcquire(t)
    \/ \E t \in RdIds : ReceiveAppend(t, {TRUE, FALSE})
    \/ \E t \in RdIds : ReceiveRelease(t)
    \/ \E t \in RdIds : ReceiveReturn(t)
    \/ GetHistoryStart
    \/ HistoryAcquire
    \/ HistoryRead({TRUE, FALSE})
    \/ HistoryRelease
    \/ HistoryReturn
    \/ Tick

LogSpec == Init /\ [][LogNext]_vars

(* The threaded server around latest_data: two devices posting readings  *)
(* and a client polling the latest one between any two of their steps.    *)
CurrentNext ==
    \/ \E t \in RdIds : ReceiveStart(t, LogIngestRequests)
    \/ \E t \in RdIds : ReceiveLatest(t)
    \/ \E t \in RdIds : ReceiveAcquire(t)
    \/ \E t \in RdIds : ReceiveAppend(t, {TRUE})
    \/ \E t \in RdIds : ReceiveRelease(t)
    \/ \E t \in RdIds : ReceiveReturn(t)
    \/ GetCurrent
    \/ Tick

CurrentSpec == Init /\ [][CurrentNext]_vars

(* The threaded server around csv_lock: the requests that take the lock  *)
(* (two ingests, one history request) beside those that do not (a web     *)
(* command, a schedule update), the storage failing or not.               *)
LockNext ==
    \/ \E t \in RdIds : ReceiveStart(t, {Cool25})
    \/ \E t \in RdIds : ReceiveLatest(t)
    \/ \E t \in RdIds : ReceiveAcquire(t)
    \/ \E t \in RdIds : ReceiveAppend(t, {TRUE, FALSE})
    \/ \E t \in RdIds : ReceiveRelease(t)
    \/ \E t \in RdIds : ReceiveReturn(t)
    \/ GetHistoryStart
    \/ HistoryAcquire
    \/ HistoryRead({TRUE, FALSE})
    \/ HistoryRelease
    \/ HistoryReturn
    \/ UpdateStart({WebPowerOnly})
    \/ UpdateStore
    \/ UpdateNow
    \/ UpdateStamp
    \/ UpdateSource
    \/ UpdateRespond
    \/ UpdateReturn
    \/ UpdateSchedule({SchedBody({"enabled"}, JBool(TRUE), None, None)})

(* Fair scheduling: a handler that can take its next step takes it; a    *)
(* thread blocked at `with csv_lock` gets the lock if it is free again    *)
(* and again.  Requests themselves need not arrive.                       *)
LockFairness ==
    /\ \A t \in RdIds :
         /\ WF_vars(ReceiveLatest(t))
         /\ SF_vars(ReceiveAcquire(t))
         /\ WF_vars(ReceiveAppend(t, {TRUE, FALSE}))
         /\ WF_vars(ReceiveRelease(t))
         /\ WF_vars(ReceiveReturn(t))
    /\ SF_vars(HistoryAcquire)
    /\ WF_vars(HistoryRead({TRUE, FALSE}))
    /\ WF_vars(HistoryRelease)
    /\ WF_vars(HistoryReturn)
    /\ WF_vars(UpdateStore \/ UpdateNow \/ UpdateStamp \/ UpdateSource
                 \/ UpdateRespond \/ UpdateReturn)

LockFairSpec == Init /\ [][LockNext]_vars /\ LockFairness

----------------------------------------------------------------------------
(* What each write does to the setting fields and the origin when it runs *)
(* alone, start to return.                                                *)

DeviceReport(s, w) ==
    [power |-> ReceivedValue(w, "power"), set_temp |-> ReceivedValue(w, "set_temp"),
     mode |-> ReceivedValue(w, "mode"), fan_speed |-> ReceivedValue(w, "fan_speed"),
     timer |-> ReceivedValue(w, "timer"), swing |-> ReceivedValue(w, "swing"),
     source |-> "arduino"]

WebCommand(s, w) ==
    LET temp == PyInt(w.val.set_temp)
        merged == [f \in SettingFields |-> IF f \in w.has THEN Commanded(w).val[f] ELSE s[f]]
    IN IF "set_temp" \in w.has /\ ~(temp.ok /\ TempInRange(temp.val))
       THEN IF "power" \in w.has THEN [s EXCEPT !.power = w.val.power] ELSE s
       ELSE [power |-> merged.power, set_temp |-> merged.set_temp,
             mode |-> merged.mode, fan_speed |-> merged.fan_speed,
             timer |-> merged.timer, swing |-> merged.swing, source |-> "web"]

Applied(s, w) == IF w.origin = "web" THEN WebCommand(s, w) ELSE DeviceReport(s, w)

(* The records some of the writes ws[i], i in todo, leave when they run   *)
(* one after the other, in any order, each whole or not at all.           *)
RECURSIVE SerialOutcomes(_, _, _)
SerialOutcomes(s, ws, todo) ==
    {s} \cup UNION {SerialOutcomes(Applied(s, ws[i]), ws, todo \ {i}) : i \in todo}

----------------------------------------------------------------------------
(* Properties. *)

RdDone(t) == rd[t].pc = "done" /\ rd[t].resp.status = 200
RdReported(t) == RdDone(t) /\ rd[t].data.hvac.present /\ rd[t].data.hvac.isdict
UhDone == uh.pc = "done"
UhAccepted == UhDone /\ uh.resp.status = 200

(* C1: in every reachable state the stored set_temp is unset or an        *)
(* integer from 16 to 30, whichever handler stored it.                    *)
C1_SetPointInRange ==
    \/ hvac_settings.set_temp = None
    \/ /\ hvac_settings.set_temp.kind = "int"
       /\ 16 <= hvac_settings.set_temp.n
       /\ hvac_settings.set_temp.n <= 30

(* C2: a completed web command or device report has changed only the     *)
(* setting fields its body has; every other setting field still has the  *)
(* value it had when the request began.                                   *)
C2_OnlyProvidedFieldsChange ==
    /\ UhDone =>
          \A f \in SettingFields \ uh.data.has : hvac_settings[f] = hist.base[f]
    /\ \A t \in RdIds :
          RdReported(t) =>
             \A f \in SettingFields \ rd[t].data.hvac.has :
                 hvac_settings[f] = hist.base[f]

(* C3: while a device report and a web command are both in progress, the  *)
(* setting fields and origin a reader finds (the readers take no lock, so *)
(* they read any reachable state) are those some of the writes begun      *)
(* would leave if run one after the other, each whole or not at all.      *)
C3_NoHalfAppliedMerge ==
    (UhWriting(uh) /\ \E t \in RdIds : RdWriting(rd[t])) =>
        Settings(hvac_settings) \in
            SerialOutcomes(Settings(hist.base), hist.started,
                           1..Len(hist.started))

(* C4: once a device report and an accepted web command have both         *)
(* completed, the record's origin and timestamp are those of one and the  *)
(* same write.                                                            *)
C4_OriginAndTimeOfOneWrite ==
    \A t \in RdIds :
        (RdReported(t) /\ UhAccepted) =>
            \/ hvac_settings.source = "web" /\ hvac_settings.timestamp = uh.now
            \/ /\ hvac_settings.source = "arduino"
               /\ hvac_settings.timestamp = rd[t].timestamp

(* C5: a web command answered 400 for its set_temp leaves hvac_settings   *)
(* exactly as the request found it.                                       *)
C5_RejectedCommandChangesNothing ==
    (UhDone /\ uh.resp.status = 400) => hvac_settings = hist.base

(* C6: a web command with an integer set_temp t is accepted if and only   *)
(* if 16 <= t <= 30, is answered 400 otherwise, and when accepted leaves  *)
(* set_temp = t and origin web.                                           *)
C6_AcceptedIffInRange ==
    (UhDone /\ "set_temp" \in uh.data.has /\ uh.data.val.set_temp.kind = "int") =>
        LET t == uh.data.val.set_temp.n
        IN /\ uh.resp.status = 200 <=> (16 <= t /\ t <= 30)
           /\ uh.resp.status \in {200, 400}
           /\ uh.resp.status = 200 =>
                 /\ hvac_settings.set_temp = JInt(t)
                 /\ hvac_settings.source = "web"

C6_Witness ==
    /\ UhAccepted
    /\ uh.data = WebLowest
    /\ hvac_settings.set_temp = JInt(16)
    /\ hist.base.set_temp = JInt(30)

(* C7: when a device report is stored after a web command and before the *)
(* device's next poll, that poll still finds origin web and the commanded *)
(* values of the fields the command had.                                  *)
C7_PendingCommandSurvivesReport ==
    (cmdResp.pending # << >> /\ cmdResp.pending[1].reported) =>
        /\ cmdResp.settings.source = "web"
        /\ \A f \in cmdResp.pending[1].cmd.has :
               cmdResp.settings[f] = cmdResp.pending[1].cmd.val[f]

(* C8: the stored timestamp of hvac_settings never decreases. *)
C8_TimestampNeverDecreases ==
    [][hvac_settings.timestamp # None =>
          hvac_settings'.timestamp.n >= hvac_settings.timestamp.n]_vars

(* The minute of the day an accepted HH:MM string names. *)
MinuteOfDay(v) == StrptimeHM(v.s).hour * 60 + StrptimeHM(v.s).minute

(* C9: for an enabled schedule the status says should_be_on exactly when  *)
(* the time of day is in [start, end), or, for start after end, at or     *)
(* after start or before end, the three compared as times of day.         *)
C9_WindowByTimeOfDay ==
    (hist.schedOp = "status" /\ statusResp.schedule_active) =>
        LET start == MinuteOfDay(statusResp.start_time)
            end == MinuteOfDay(statusResp.end_time)
            now == MinuteOfDay(statusResp.current_time)
        IN statusResp.should_be_on =
              JBool(IF start <= end THEN start <= now /\ now < end
                    ELSE now >= start \/ now < end)

(* C10: for a disabled schedule the status says schedule_active false and *)
(* should_be_on null, whatever the times, and the request leaves every    *)
(* shared record as it found it.                                          *)
C10_DisabledScheduleInactive ==
    (hist.schedOp = "status" /\ ~hist.schedPre.enabled) =>
        /\ statusResp.schedule_active = FALSE
        /\ statusResp.should_be_on = None
        /\ schedule_settings = hist.schedPre
        /\ hvac_settings = InitHvac
        /\ latest_data = InitLatest
        /\ csv_file = [exists |-> TRUE, rows |-> << Header >>]

C10_Witness ==
    /\ hist.schedOp = "status"
    /\ ~schedule_settings.enabled
    /\ schedule_settings.start_time = T0800
    /\ schedule_settings.timestamp # None
    /\ statusResp.should_be_on = None

----------------------------------------------------------------------------
(* The reading log. *)

(* d is the history entry of the reading the file row holds: its three   *)
(* cells under the names of the header.                                   *)
IsReading(d, row) ==
    /\ DOMAIN d = {Header[1], Header[2], Header[3]}
    /\ d[Header[1]] = row[1]
    /\ d[Header[2]] = row[2]
    /\ d[Header[3]] = row[3]

(* C11: with n readings in the log (those of earlier runs and one for     *)
(* each ingest answered with success), a history request answers with    *)
(* exactly min(n, 50) entries, the last min(n, 50) readings of the log,   *)
(* the newest first, and never the header.                                *)
C11_HistoryIsLastFiftyNewestFirst ==
    (gh.pc = "done" /\ gh.resp.status = 200) =>
        LET rows == csv_file.rows
            n == Len(rows) - 1
            m == IF n <= 50 THEN n ELSE 50
        IN /\ n = (Len(hist.bootPost.rows) - 1) + hist.succeeded
           /\ Len(gh.resp.rows) = m
           /\ \A i \in 1..m : IsReading(gh.resp.rows[i], rows[Len(rows) + 1 - i])

C11_Witness ==
    /\ gh.pc = "done"
    /\ gh.resp.status = 200
    /\ hist.succeeded > 0
    /\ Len(csv_file.rows) - 1 > 50
    /\ Len(gh.resp.rows) = 50

(* C12: an ingest whose body lacks temperature or humidity is answered    *)
(* 400, and no step of it, from the start to the return, changes          *)
(* latest_data, hvac_settings (even when the body carries an HVAC         *)
(* snapshot) or the log.                                                  *)
C12_RejectedIngestChangesNothing ==
    [][\A t \in RdIds :
         LET data == IF rd[t].pc = "idle" THEN rd'[t].data ELSE rd[t].data
         IN (rd'[t] # rd[t] /\ (data.temperature = None \/ data.humidity = None)) =>
              /\ rd[t].pc = "idle" => (rd'[t].pc = "done" /\ rd'[t].resp.status = 400)
              /\ rd[t].pc # "idle" => (rd[t].pc = "done" /\ rd'[t].pc = "idle")
              /\ latest_data' = latest_data
              /\ hvac_settings' = hvac_settings
              /\ csv_file' = csv_file]_vars

C12_Witness ==
    /\ rd["rd1"].pc = "done"
    /\ rd["rd1"].resp.status = 400
    /\ rd["rd1"].data.humidity = None
    /\ rd["rd1"].data.hvac.present
    /\ latest_data.temperature # None
    /\ Len(csv_file.rows) > 1

(* C13: init_csv leaves exactly the header in a file that was absent or   *)
(* empty, leaves a file that held anything as it was, and run again on    *)
(* what it left changes nothing.                                          *)
C13_BootstrapIdempotent ==
    LET pre == hist.bootPre
        post == hist.bootPost
    IN /\ (~pre.exists \/ pre.rows = << >>) => post = HeaderOnly
       /\ (pre.exists /\ pre.rows # << >>) => post = pre
       /\ InitCsv(post) = post

(* C14: what get_current answers is all unset or is the temperature,     *)
(* humidity and timestamp of one single accepted ingest, however the      *)
(* request falls among the steps of running ingests.                      *)
C14_LatestIsOneReading ==
    currentResp.asked =>
        \/ currentResp.data = InitLatest
        \/ currentResp.data \in hist.readings

(* C15: a history request whose read of the log failed is answered as a  *)
(* normal result with no entries, and an ingest whose write to the log    *)
(* failed is answered with a failure.                                     *)
C15_StorageErrorsAnswered ==
    /\ (gh.pc = "done" /\ gh.ioerr) => gh.resp = [status |-> 200, rows |-> << >>]
    /\ \A t \in RdIds : (rd[t].pc = "done" /\ rd[t].ioerr) => rd[t].resp.status = 500

----------------------------------------------------------------------------
(* The schedule record. *)

(* v is a string of two digits, a colon and two digits, the hour at most *)
(* 23 and the minute at most 59.                                          *)
IsHHMM(v) ==
    /\ v.kind = "str"
    /\ Len(v.s) = 5
    /\ v.s[3] = ":"
    /\ \A i \in {1, 2, 4, 5} : IsDigit(v.s[i])
    /\ DecimalValue(SubSeq(v.s, 1, 2)) <= 23
    /\ DecimalValue(SubSeq(v.s, 4, 5)) <= 59

(* C16: after any sequence of update_schedule requests the stored        *)
(* start_time and end_time are zero-padded 24-hour HH:MM strings.         *)
C16_StoredTimesAreHHMM ==
    /\ IsHHMM(schedule_settings.start_time)
    /\ IsHHMM(schedule_settings.end_time)

(* C17: an update_schedule request answered 400 for a malformed          *)
(* start_time or end_time leaves schedule_settings (enabled, start_time,  *)
(* end_time, timestamp) as the request found it.                          *)
C17_RejectedScheduleChangesNothing ==
    (hist.schedOp = "update" /\ schedResp.status = 400) =>
        schedule_settings = hist.schedPre

----------------------------------------------------------------------------
(* The log under concurrent requests. *)

IsPrefix(a, b) == Len(a) <= Len(b) /\ SubSeq(b, 1, Len(a)) = a

(* The row line 93 writes for the reading thread record r holds. *)
RecordOf(r) == << CsvCell(r.timestamp), CsvCell(r.temperature), CsvCell(r.humidity) >>

(* Thread t has written its row and is still inside `with csv_lock`. *)
RdWritten(t) == rd[t].pc = "l93" /\ ~rd[t].ioerr

(* C18: the log only grows at its end.  Every step leaves the old rows   *)
(* as a prefix of the new; the file changes only by one ingest inside     *)
(* the lock appending its one three-cell record; the rows after those a   *)
(* start found are as many as the ingests answered 200 plus those that    *)
(* have written and not yet answered (so rejected and failed ingests and  *)
(* other requests add none); and while the writer of a record is still    *)
(* inside the lock its record is the last one, none written into it.      *)
C18_LogAppendOnly ==
    /\ [](/\ Len(csv_file.rows) =
               Len(hist.bootPost.rows) + hist.succeeded
                 + Cardinality({t \in RdIds : RdWritten(t)})
          /\ \A i \in 1..Len(csv_file.rows) : Len(csv_file.rows[i]) = 3
          /\ \A t \in RdIds :
                RdWritten(t) =>
                    /\ csv_lock = t
                    /\ csv_file.rows[Len(csv_file.rows)] = RecordOf(rd[t]))
    /\ [][/\ csv_file.exists => csv_file'.exists
          /\ IsPrefix(csv_file.rows, csv_file'.rows)
          /\ csv_file' # csv_file =>
                \E t \in RdIds :
                    /\ rd[t].pc = "l91"
                    /\ csv_lock = t
                    /\ rd'[t].pc = "l93"
                    /\ csv_file'.rows = Append(csv_file.rows, RecordOf(rd[t]))]_vars

C18_Witness ==
    /\ RdWritten("rd1")
    /\ rd["rd2"].pc = "done"
    /\ rd["rd2"].resp.status = 200
    /\ Len(csv_file.rows) = 3
    /\ csv_file.rows[2] # csv_file.rows[3]

(* C19: with no ingest in progress, latest_data is all unset if no        *)
(* reading was accepted yet, and else its timestamp, temperature and      *)
(* humidity (as csv writes them) are the last row of the log.             *)
C19_LatestMatchesLog ==
    (\A t \in RdIds : rd[t].pc = "idle") =>
        IF hist.readings = {} THEN latest_data = InitLatest
        ELSE /\ Len(csv_file.rows) > 1
             /\ RecordOf(latest_data) = csv_file.rows[Len(csv_file.rows)]

----------------------------------------------------------------------------
(* csv_lock. *)

(* The threads inside a `with csv_lock` block. *)
Holders ==
    {t \in RdIds : rd[t].pc \in {"l91", "l93"}}
      \cup (IF gh.pc \in {"l225", "l230"} THEN {GhId} ELSE {})

(* C20: at most one request is inside `with csv_lock`, the lock is that   *)
(* request's while it is inside and free once it has left, also when the  *)
(* append or the read failed; a running update_hvac can always take its   *)
(* next step and update_schedule can always be served, whoever holds the  *)
(* lock; and under fair scheduling every ingest and every history         *)
(* request waiting for the lock gets it and is answered.                  *)
C20_LockReleasedAndNoStarvation ==
    /\ [](/\ Cardinality(Holders) <= 1
          /\ \A t \in Holders : csv_lock = t
          /\ Holders = {} => csv_lock = Free
          /\ uh.pc # "idle" =>
                ENABLED (UpdateStore \/ UpdateNow \/ UpdateStamp \/ UpdateSource
                           \/ UpdateRespond \/ UpdateReturn)
          /\ ENABLED UpdateSchedule(ScheduleRequests))
    /\ \A t \in RdIds : (rd[t].pc = "l90") ~> (rd[t].pc = "done")
    /\ (gh.pc = "l224") ~> (gh.pc = "done")

C20_Witness ==
    /\ rd["rd1"].pc = "l90"
    /\ rd["rd2"].pc = "l93"
    /\ rd["rd2"].ioerr
    /\ csv_lock = "rd2"

====
